---- MODULE Spec2Model ----
(***************************************************************************)
(* A model of nataili's model resource manager, BaseModelManager           *)
(* (src/nataili/model_manager/base.py): the catalog (models), the          *)
(* available / loaded registries, the cache directory, and the operations  *)
(* init, check_model_available, validate_model, download_model,            *)
(* download_all_models, taint_model(s), unload_model, unload_all_models,   *)
(* get_filtered_models / get_filtered_model_names and get_cuda_devices;    *)
(* with it the constructor of the aggregate ModelManager                   *)
(* (src/nataili/model_manager/super.py) and the image embedding cache of   *)
(* ImageEmbed (src/nataili/clip/image.py).                                 *)
(*                                                                         *)
(* Every public method is one action.  The variable `last` records the     *)
(* call that produced the current state: its name, its arguments, what it  *)
(* returned (or the exception that left it) and the externally visible     *)
(* events it performed in order (network requests, file-system mutations,  *)
(* log lines that the code emits).                                         *)
(*                                                                         *)
(* Specifications:                                                         *)
(*   Spec         the manager used by one caller, on the catalogs "a","b"; *)
(*   SpecBatch    init and download_all_models;                            *)
(*   SpecFilters  init and the filter operations;                          *)
(*   SpecDevices  the constructor and get_cuda_devices on every machine;   *)
(*   SpecCalls    download_model step by step, several callers inside it;  *)
(*   SpecStrategies  download_model on catalogs that use every strategy;   *)
(*   SpecRetry    download_model re-invoked on a working network;          *)
(*   SpecAggregate  ModelManager.__init__ statement by statement;          *)
(*   SpecImageCache  ImageEmbed called on one cache.                       *)
(***************************************************************************)
EXTENDS Integers, Sequences, FiniteSets, TLC

VARIABLES
    models,             \* self.models: catalog, name -> descriptor
    available_models,   \* self.available_models: list of names
    loaded_models,      \* self.loaded_models: dict, modelled by its key order
    tainted_models,     \* self.tainted_models: [exists, items]; exists = the attribute is set
    download_reference, \* self.download_reference
    fs,                 \* the cache directory self.path: path -> content (0 = no such file)
    last,               \* the last completed call: [op, arg, ret, log]
    calls,              \* the download_model calls in flight: caller -> frame
    torch_cuda,         \* what torch.cuda reports: [available, devices]
    cuda_devices,       \* self.cuda_devices
    recommended_gpu,    \* self.recommended_gpu
    mm,                 \* the aggregate ModelManager: its constructor's position and attributes
    cache               \* the image embedding cache: [kv, files]

\* The fields the constructor computes from torch.cuda.
devices == <<torch_cuda, cuda_devices, recommended_gpu>>

vars == <<models, available_models, loaded_models, tainted_models,
          download_reference, fs, last, calls, devices, mm, cache>>

---------------------------------------------------------------------------
(* Bounds *)

\* File contents are 1..MaxContent (0 stands for "no such file").
MaxContent == 2

\* A filter call gives at most MaxPredicates keyword arguments.
MaxPredicates == 2

\* torch.cuda.device_count() is at most MaxDevices.
MaxDevices == 4

\* The callers that may be inside download_model at once.
MaxCallers == 2

\* The images ImageEmbed is called on are 1..MaxImages.
MaxImages == 3

\* uuid4() gives one of MaxFiles file names.
MaxFiles == 3

---------------------------------------------------------------------------
(* Values *)

\* A file spec without the "md5sum" key.
NoMd5 == -1

\* The content value of a directory (made by os.makedirs / git clone).
DirContent == -2

\* A local variable of download_model that no assignment has reached yet.
Unbound == "<unbound>"

Contents == 1..MaxContent

\* hashlib.md5(...).hexdigest(), on the abstract contents: a 4-bit hash.
Md5(c) == (7 * c + 3) % 16

\* os.path.join / the f-string "{file_path}/{file_name}".
Join(dir, name) == dir \o "/" \o name

Range(s) == {s[i] : i \in 1..Len(s)}

InList(x, s) == x \in Range(s)

\* list.remove(x): drops the first occurrence of x.
RECURSIVE ListRemove(_, _)
ListRemove(s, x) ==
    IF s = <<>> THEN <<>>
    ELSE IF Head(s) = x THEN Tail(s)
    ELSE <<Head(s)>> \o ListRemove(Tail(s), x)

---------------------------------------------------------------------------
(* The catalogs *)

EntryKeys == {"file_url", "file_name", "file_path", "manual", "file_content",
              "symlink", "git", "unzip"}

\* One object of a descriptor's "download" list: the keys it holds and
\* their values (a key that is not held has an unread default).
Entry(keys, url, name, path) ==
    [keys |-> keys, file_url |-> url, file_name |-> name, file_path |-> path,
     file_content |-> 1, symlink |-> ""]

Has(e, k) == k \in e.keys

FileSpec(path, md5) == [path |-> path, md5sum |-> md5]

Descriptor(type, all, files, download) ==
    [type |-> type, download_all |-> all,
     config |-> [files |-> files, download |-> download]]

\* "a": two plain downloads, the first file with a digest (that of content 1),
\*      the second entry without file_path/file_name.
ModelA ==
    Descriptor("ckpt", TRUE,
        << FileSpec("m/a1", Md5(1)), FileSpec("m/a2", NoMd5) >>,
        << Entry({"file_url", "file_name", "file_path"}, "http://h/a1", "a1", "m"),
           Entry({"file_url"}, "http://h/a2", "", "") >>)

\* "b": one file written from literal content.
ModelB ==
    Descriptor("other", TRUE,
        << FileSpec("m/b1", NoMd5) >>,
        << Entry({"file_name", "file_path", "file_content"}, "", "b1", "m") >>)

\* "g": one manual download, the entry naming its URL and destination.
ModelG ==
    Descriptor("ckpt", FALSE,
        << FileSpec("m/g1", Md5(1)) >>,
        << Entry({"manual", "file_url", "file_name", "file_path"},
                 "http://h/g1", "g1", "m") >>)

\* "h": one manual download, the destination left to the file spec.
ModelH ==
    Descriptor("other", FALSE,
        << FileSpec("m/h1", NoMd5) >>,
        << Entry({"manual", "file_url"}, "http://h/h1", "", "") >>)

\* "c": a plain download followed by a literal write whose entry leaves the
\*      destination to the file spec.
ModelC ==
    Descriptor("other", FALSE,
        << FileSpec("m/c1", NoMd5), FileSpec("m/c2", NoMd5) >>,
        << Entry({"file_url", "file_name", "file_path"}, "http://h/c1", "c1", "m"),
           Entry({"file_content"}, "", "", "") >>)

\* "r": a repository cloned into the directory the file spec names.
ModelR ==
    Descriptor("other", FALSE,
        << FileSpec("r", NoMd5) >>,
        << Entry({"git", "file_url"}, "http://h/r.git", "", "") >>)

\* "s": a symbolic link.
ModelS ==
    Descriptor("other", FALSE,
        << FileSpec("m/s1", NoMd5) >>,
        << [Entry({"symlink", "file_name", "file_path"}, "", "s1", "m")
              EXCEPT !.symlink = "/opt/s1"] >>)

\* "z": an archive to download and extract.
ModelZ ==
    Descriptor("other", FALSE,
        << FileSpec("m/z1", Md5(1)) >>,
        << Entry({"unzip", "file_url", "file_name", "file_path"}, "http://h/z.zip", "z1", "m") >>)

\* "x": entries that hold two strategy keys each.
ModelX ==
    Descriptor("other", FALSE,
        << FileSpec("m/x1", NoMd5), FileSpec("m/x2", NoMd5) >>,
        << Entry({"manual", "file_content", "file_url", "file_name", "file_path"},
                 "http://h/x1", "x1", "m"),
           [Entry({"file_content", "symlink", "file_name", "file_path"}, "", "x2", "m")
              EXCEPT !.symlink = "/opt/x2", !.file_content = 2] >>)

\* "y": likewise, for the later keys of the chain.
ModelY ==
    Descriptor("other", FALSE,
        << FileSpec("m/y1", NoMd5), FileSpec("m/y2", NoMd5) >>,
        << [Entry({"symlink", "git", "file_url", "file_name", "file_path"},
                  "http://h/y1.git", "y1", "m") EXCEPT !.symlink = "/opt/y1"],
           Entry({"git", "unzip", "file_url", "file_name", "file_path"},
                 "http://h/y2.git", "y2", "m") >>)

\* The order in which the catalogs list their names (dict order).
NameOrder == << "a", "b" >>

Names == Range(NameOrder)

\* The catalog behind self.remote_db.
RemoteCatalog == [n \in {"a", "b"} |-> IF n = "a" THEN ModelA ELSE ModelB]

\* A remote catalog that also lists the manual artifacts.
FullCatalog ==
    [n \in {"a", "b", "g", "h"} |->
        CASE n = "a" -> ModelA [] n = "b" -> ModelB [] n = "g" -> ModelG [] OTHER -> ModelH]

\* The packaged models.json (self.models_path).
LocalCatalog == [n \in {"a"} |-> ModelA]

\* self.models = {} of the constructor.
EmptyCatalog == [n \in {} |-> ModelA]

Catalogs == {RemoteCatalog, LocalCatalog, EmptyCatalog}

\* The order of the names of every catalog of the model.
DictOrder == NameOrder \o << "g", "h", "c", "r", "s", "x", "y", "z" >>

\* list(catalog): the keys in dict order.
KeysOf(catalog) == SelectSeq(DictOrder, LAMBDA n : n \in DOMAIN catalog)

\* uuid4() names a fresh directory under the cache root.
TempPath == "<uuid4>"

\* zip_path = f"{self.path}/{download_name}.zip"
ZipPath(name) == name \o ".zip"

\* download_file prefixes self.path again to the zip_path it is given.
DoubledZipPath(name) == Join("<self.path>", ZipPath(name))

\* Where shutil.move puts a member of the temporary directory when the
\* directory it is moved to exists already: inside it, under the temporary
\* directory's own name.
NestedPath(path, name) == Join(Join(path, TempPath), name)

\* Every path of the cache directory an operation can touch.
PathsOfDescriptor(d) ==
    LET F == Range(d.config.files)
        E == Range(d.config.download)
    IN  {f.path : f \in F}
        \cup {Join(e1.file_path, e2.file_name) :
                 e1 \in {e \in E : Has(e, "file_path")},
                 e2 \in {e \in E : Has(e, "file_name")}}
        \cup UNION {{ZipPath(e.file_name), DoubledZipPath(e.file_name),
                     NestedPath(e.file_path, e.file_name)} :
                       e \in {e \in E : Has(e, "file_name") /\ Has(e, "unzip")}}
        \cup (IF \E e \in E : Has(e, "unzip") THEN {TempPath} ELSE {})

Paths == UNION {UNION {PathsOfDescriptor(c[n]) : n \in DOMAIN c} : c \in Catalogs}

\* The same with the files of the manual artifacts.
AllPaths == Paths \cup UNION {PathsOfDescriptor(FullCatalog[n]) : n \in DOMAIN FullCatalog}

---------------------------------------------------------------------------
(* Availability and validation *)

\* check_file_available: os.path.exists.
check_file_available(fsx, file_path) ==
    file_path \in DOMAIN fsx /\ fsx[file_path] # 0

\* Faulty variant: the flag is overwritten by each file's test instead of cleared.
RECURSIVE check_available_last_file(_, _, _, _)
check_available_last_file(fsx, files, i, available) ==
    IF i > Len(files) THEN available
    ELSE check_available_last_file(fsx, files, i + 1,
            check_file_available(fsx, files[i].path))

\* check_available: the loop over the files, clearing the flag on a miss.
RECURSIVE check_available_from(_, _, _, _)
check_available_from(fsx, files, i, available) ==
    IF i > Len(files) THEN available
    ELSE check_available_from(fsx, files, i + 1,
            IF ~check_file_available(fsx, files[i].path) THEN FALSE ELSE available)

check_available(fsx, files) == check_available_from(fsx, files, 1, TRUE)

get_model_files(catalog, model_name) == catalog[model_name].config.files

get_model_download(catalog, model_name) == catalog[model_name].config.download

check_model_available(catalog, fsx, model_name) ==
    IF model_name \notin DOMAIN catalog THEN FALSE
    ELSE check_available(fsx, get_model_files(catalog, model_name))

\* Faulty variant: the digest is never compared.
validate_file_unchecked(fsx, file_details) == TRUE

\* validate_file: no digest declared, or the file's digest equals it.
validate_file(fsx, file_details) ==
    IF file_details.md5sum # NoMd5
    THEN ~(file_details.md5sum # Md5(fsx[file_details.path]))
    ELSE TRUE

\* validate_model: the loop over the files with its two early returns.
RECURSIVE validate_model_from(_, _, _, _)
validate_model_from(fsx, files, i, skip_checksum) ==
    IF i > Len(files) THEN TRUE
    ELSE IF ~check_file_available(fsx, files[i].path) THEN FALSE
    ELSE IF ~skip_checksum /\ ~validate_file(fsx, files[i]) THEN FALSE
    ELSE validate_model_from(fsx, files, i + 1, skip_checksum)

validate_model(catalog, fsx, model_name, skip_checksum) ==
    validate_model_from(fsx, get_model_files(catalog, model_name), 1, skip_checksum)

---------------------------------------------------------------------------
(* Catalog loading *)

\* What the environment answers to a catalog load:
\*   "remote"  the HTTP fetch and the JSON parse succeed;
\*   "local"   they fail (when tried) and the packaged file is read;
\*   "none"    the packaged file cannot be read either.
Sources == {"remote", "local", "none"}

\* download_model_reference / the else branch of init: the catalog obtained
\* from what self.remote_db serves and what self.models_path holds.
\* [ok, catalog, log]; ok = FALSE when an exception leaves init.
LoadCatalog(self, source) ==
    IF self.download_reference /\ source = "remote"
    THEN [ok |-> TRUE, catalog |-> self.remote_db, log |-> <<"GET remote_db">>]
    ELSE [ok |-> source # "none", catalog |-> self.models_path,
          log |-> (IF self.download_reference THEN <<"GET remote_db">> ELSE <<>>)
                  \o <<"read models.json">>]

\* Faulty variant: the rebuilt list keeps only the names that also validate.
models_available_validated(catalog, fsx) ==
    SelectSeq(KeysOf(catalog),
              LAMBDA model : /\ check_model_available(catalog, fsx, model)
                             /\ validate_model(catalog, fsx, model, FALSE))

\* The loop of init that rebuilds available_models.
models_available(catalog, fsx) ==
    SelectSeq(KeysOf(catalog), LAMBDA model : check_model_available(catalog, fsx, model))

---------------------------------------------------------------------------
(* The manager as a value: the fields the operations below read and write *)

\* The manager whose remote_db serves `remote` and whose models_path holds
\* `packaged`.
Manager(remote, packaged) ==
    [models |-> models, available_models |-> available_models,
     download_reference |-> download_reference, fs |-> fs,
     remote_db |-> remote, models_path |-> packaged]

Self == Manager(RemoteCatalog, LocalCatalog)

\* What a call yields: the manager after it, what it returned (or the
\* exception that left it) and the events it performed.
Result(self, ret, log) == [self |-> self, ret |-> ret, log |-> log]

\* What leaves init when the packaged catalog cannot be read either.
CatalogUnavailable == "FileNotFoundError: models.json"

\* Faulty variant: init that rebuilds available_models from the catalog it
\* is about to replace.
init_lists_old_catalog(self, source) ==
    LET r == LoadCatalog(self, source) IN
    IF r.ok
    THEN Result([self EXCEPT !.models = r.catalog,
                             !.available_models = models_available(self.models, self.fs)],
                "None", r.log)
    ELSE Result(self, CatalogUnavailable, r.log)

\* Faulty variant: a failed load leaves an empty catalog behind.
init_resets_on_failure(self, source) ==
    LET r == LoadCatalog(self, source) IN
    IF r.ok
    THEN Result([self EXCEPT !.models = r.catalog,
                             !.available_models = models_available(r.catalog, self.fs)],
                "None", r.log)
    ELSE Result([self EXCEPT !.models = EmptyCatalog, !.available_models = <<>>],
                CatalogUnavailable, r.log)

\* init()
init(self, source) ==
    LET r == LoadCatalog(self, source) IN
    IF r.ok
    THEN Result([self EXCEPT !.models = r.catalog,
                             !.available_models = models_available(r.catalog, self.fs)],
                "None", r.log)
    ELSE Result(self, CatalogUnavailable, r.log)

---------------------------------------------------------------------------
(* download_model: the locals of one call and the per-entry strategies *)

\* What the environment answers to the transport of one entry:
\*   0      the request (or the clone) raises before anything is written;
\*   c > 0  it completes and delivers content c;
\*   -1     the transfer raises after a truncated body was written.
Outcomes == -1..MaxContent

\* The content of a truncated body: not the one the catalog's digests are of.
Truncated == MaxContent

Locals(fsx) == [fs |-> fsx, download_url |-> Unbound, download_name |-> Unbound,
                download_path |-> Unbound, log |-> <<>>, exc |-> ""]

Raise(st, e) == [st EXCEPT !.exc = e]

Emit(st, ev) == [st EXCEPT !.log = Append(@, ev)]

WriteFile(st, p, c) == [Emit(st, "write " \o p) EXCEPT !.fs[p] = c]

\* download_file(url, file_path)
download_file(st, url, file_path, out) ==
    LET s1 == Emit(st, "GET " \o url) IN
    IF out = 0 THEN Raise(s1, "ConnectionError")
    ELSE IF out > 0 THEN WriteFile(s1, file_path, out)
    ELSE Raise(WriteFile(s1, file_path, Truncated), "ConnectionError")

\* The "manual" branch: the prompt, then input("") returns once the user
\* confirms; by then the user has placed the file (out > 0) or has not.
manual_step(st, out) ==
    IF Unbound \in {st.download_url, st.download_path, st.download_name}
    THEN Raise(st, "UnboundLocalError")
    ELSE LET dest == Join(st.download_path, st.download_name)
             s1 == Emit(st, "prompt " \o dest)
         IN  IF out > 0 THEN [s1 EXCEPT !.fs[dest] = out] ELSE s1

\* The "file_content" branch.
file_content_step(st, d) ==
    IF Unbound \in {st.download_path, st.download_name}
    THEN Raise(st, "UnboundLocalError")
    ELSE LET dest == Join(st.download_path, st.download_name) IN
         IF st.fs[dest] = DirContent THEN Raise(st, "IsADirectoryError")
         ELSE WriteFile(st, dest, d.file_content)

\* The "symlink" branch: the link resolves to content out, or dangles.
symlink_step(st, d, out) ==
    IF Unbound \in {st.download_path, st.download_name}
    THEN Raise(st, "UnboundLocalError")
    ELSE LET dest == Join(st.download_path, st.download_name) IN
         IF st.fs[dest] # 0 THEN Raise(st, "FileExistsError")
         ELSE [Emit(st, "symlink " \o dest) EXCEPT !.fs[dest] = IF out > 0 THEN out ELSE 0]

\* The "git" branch.
git_step(st, file_path, out) ==
    IF st.download_url = Unbound THEN Raise(st, "UnboundLocalError")
    ELSE IF st.fs[file_path] \in Contents THEN Raise(st, "FileExistsError")
    ELSE LET s1 == [Emit(st, "mkdir " \o file_path) EXCEPT !.fs[file_path] = DirContent]
             s2 == Emit(s1, "git clone " \o st.download_url)
         IN  IF out > 0 THEN s2 ELSE Raise(s2, "GitCommandError")

\* os.path.isdir: the path is a directory made as such, or a file lies under it.
IsUnder(p, dir) == Len(p) > Len(dir) + 1 /\ SubSeq(p, 1, Len(dir) + 1) = dir \o "/"

DirExists(fsx, dir) ==
    \/ dir \in DOMAIN fsx /\ fsx[dir] = DirContent
    \/ \E p \in DOMAIN fsx : fsx[p] # 0 /\ IsUnder(p, dir)

\* The "unzip" branch.  The archive is downloaded through download_file,
\* which prefixes self.path to the already prefixed zip_path, and is then
\* opened at zip_path.  The archive is taken to hold one member, named
\* download_name; shutil.move renames the temporary directory to
\* download_path, or moves it inside download_path when that exists; the
\* temporary directory is removed after it was moved.
unzip_step(st, out) ==
    IF st.download_name = Unbound THEN Raise(st, "UnboundLocalError")
    ELSE
    LET zip_path == ZipPath(st.download_name)
        s1 == [Emit(st, "mkdir " \o TempPath) EXCEPT !.fs[TempPath] = DirContent]
    IN
    IF s1.download_url = Unbound THEN Raise(s1, "UnboundLocalError")
    ELSE
    LET s2 == download_file(s1, s1.download_url, DoubledZipPath(st.download_name), out) IN
    IF s2.exc # "" THEN s2
    ELSE IF s2.fs[zip_path] \notin Contents THEN Raise(s2, "FileNotFoundError")
    ELSE
    LET s3 == Emit(s2, "extract " \o zip_path) IN
    IF s3.download_path = Unbound THEN Raise(s3, "UnboundLocalError")
    ELSE
    LET dest == IF DirExists(s3.fs, s3.download_path)
                THEN NestedPath(s3.download_path, s3.download_name)
                ELSE Join(s3.download_path, s3.download_name)
        s4 == [Emit(s3, "move " \o TempPath) EXCEPT !.fs[dest] = s3.fs[zip_path],
                                                     !.fs[TempPath] = 0]
        s5 == [Emit(s4, "remove " \o zip_path) EXCEPT !.fs[zip_path] = 0]
    IN  Raise(s5, "FileNotFoundError")

\* Faulty variant: the download is made whether or not the file exists.
plain_step_always_downloads(st, file_path, out) ==
    IF st.download_url = Unbound THEN Raise(st, "UnboundLocalError")
    ELSE download_file(st, st.download_url, file_path, out)

\* The default branch: a plain download, unless the file exists.
plain_step(st, file_path, out) ==
    IF ~check_file_available(st.fs, file_path)
    THEN IF st.download_url = Unbound THEN Raise(st, "UnboundLocalError")
         ELSE download_file(st, st.download_url, file_path, out)
    ELSE st

\* Faulty variant: the chain tests "git" before "symlink".
dispatch_git_before_symlink(st, d, file_path, out) ==
    IF Has(d, "manual") THEN manual_step(st, out)
    ELSE IF Has(d, "file_content") THEN file_content_step(st, d)
    ELSE IF Has(d, "git") THEN git_step(st, file_path, out)
    ELSE IF Has(d, "symlink") THEN symlink_step(st, d, out)
    ELSE IF Has(d, "unzip") THEN unzip_step(st, out)
    ELSE plain_step(st, file_path, out)

\* The if/elif chain on the entry's keys.
dispatch(st, d, file_path, out) ==
    IF Has(d, "manual") THEN manual_step(st, out)
    ELSE IF Has(d, "file_content") THEN file_content_step(st, d)
    ELSE IF Has(d, "symlink") THEN symlink_step(st, d, out)
    ELSE IF Has(d, "git") THEN git_step(st, file_path, out)
    ELSE IF Has(d, "unzip") THEN unzip_step(st, out)
    ELSE plain_step(st, file_path, out)

\* One pass of the loop body for download[i].
process_entry(st, download, files, i, out) ==
    LET d == download[i] IN
    IF Has(d, "file_path") /\ ~Has(d, "file_name") THEN Raise(st, "KeyError")
    ELSE IF ~Has(d, "file_path") /\ i > Len(files) THEN Raise(st, "IndexError")
    ELSE
    LET file_path == IF Has(d, "file_path") THEN Join(d.file_path, d.file_name)
                     ELSE files[i].path
        s1 == [st EXCEPT
                 !.download_url  = IF Has(d, "file_url")  THEN d.file_url  ELSE @,
                 !.download_name = IF Has(d, "file_name") THEN d.file_name ELSE @,
                 !.download_path = IF Has(d, "file_path") THEN d.file_path ELSE @]
    IN  dispatch(s1, d, file_path, out)

\* for i in range(len(download)), left by the first exception.
RECURSIVE run_entries(_, _, _, _, _)
run_entries(st, download, files, i, outs) ==
    IF i > Len(download) \/ st.exc # "" THEN st
    ELSE run_entries(process_entry(st, download, files, i, outs[i]),
                     download, files, i + 1, outs)

\* validate_file opens the path: a directory with a declared digest raises.
RECURSIVE validate_raises_from(_, _, _)
validate_raises_from(fsx, files, i) ==
    IF i > Len(files) THEN FALSE
    ELSE IF ~check_file_available(fsx, files[i].path) THEN FALSE
    ELSE IF files[i].md5sum # NoMd5 /\ fsx[files[i].path] = DirContent THEN TRUE
    ELSE IF ~validate_file(fsx, files[i]) THEN FALSE
    ELSE validate_raises_from(fsx, files, i + 1)

\* Faulty variant: the catalog is reloaded after a failed validation too.
acquire_model_reloads_on_failure(self, model_name, outs, source) ==
    IF model_name \notin DOMAIN self.models
    THEN Result(self, "KeyError", <<>>)
    ELSE
    LET download == get_model_download(self.models, model_name)
        files == get_model_files(self.models, model_name)
        st == run_entries(Locals(self.fs), download, files, 1, outs)
        s1 == [self EXCEPT !.fs = st.fs]
        r == init(s1, source)
    IN
    IF st.exc # "" THEN Result(s1, st.exc, st.log)
    ELSE IF validate_raises_from(s1.fs, files, 1)
    THEN Result(s1, "IsADirectoryError", st.log)
    ELSE IF r.ret # "None" THEN Result(r.self, r.ret, st.log \o r.log)
    ELSE IF ~validate_model(s1.models, s1.fs, model_name, FALSE)
    THEN Result(r.self, "False", st.log \o r.log)
    ELSE Result(r.self, "True", st.log \o r.log)

\* download_model(model_name) past its first test: the download list, the
\* validation and the reload.
acquire_model(self, model_name, outs, source) ==
    IF model_name \notin DOMAIN self.models
    THEN Result(self, "KeyError", <<>>)
    ELSE
    LET download == get_model_download(self.models, model_name)
        files == get_model_files(self.models, model_name)
        st == run_entries(Locals(self.fs), download, files, 1, outs)
        s1 == [self EXCEPT !.fs = st.fs]
    IN
    IF st.exc # "" THEN Result(s1, st.exc, st.log)
    ELSE IF validate_raises_from(s1.fs, files, 1)
    THEN Result(s1, "IsADirectoryError", st.log)
    ELSE IF ~validate_model(s1.models, s1.fs, model_name, FALSE)
    THEN Result(s1, "False", st.log)
    ELSE LET r == init(s1, source) IN
         Result(r.self, IF r.ret = "None" THEN "True" ELSE r.ret, st.log \o r.log)

\* Faulty variant: download_model without the test of available_models.
download_model_always_acquires(self, model_name, outs, source) ==
    acquire_model(self, model_name, outs, source)

\* download_model(model_name)
download_model(self, model_name, outs, source) ==
    IF InList(model_name, self.available_models)
    THEN Result(self, "True", <<"already available">>)
    ELSE acquire_model(self, model_name, outs, source)

---------------------------------------------------------------------------
(* Taint and the loaded registry *)

\* taint_model(model_name) on (available_models, tainted_models):
\* the name is removed first, then appended to self.tainted_models, an
\* attribute the constructor never sets.
taint_model(st, model_name) ==
    IF InList(model_name, st.available_models)
    THEN LET s1 == [st EXCEPT !.available_models = ListRemove(@, model_name)] IN
         IF s1.tainted_models.exists
         THEN [s1 EXCEPT !.tainted_models.items = Append(@, model_name)]
         ELSE [s1 EXCEPT !.exc = "AttributeError"]
    ELSE st

\* taint_models(models): the loop, left by the first exception.
RECURSIVE taint_models(_, _)
taint_models(st, names) ==
    IF names = <<>> \/ st.exc # "" THEN st
    ELSE taint_models(taint_model(st, Head(names)), Tail(names))

TaintState == [available_models |-> available_models,
               tainted_models |-> tainted_models, exc |-> ""]

\* self.loaded_models[model_name] = handle, as the model-type managers' load does.
register_loaded(loaded, model_name) ==
    IF InList(model_name, loaded) THEN loaded ELSE Append(loaded, model_name)

is_model_loaded(loaded, model_name) == InList(model_name, loaded)

\* Faulty variant: the entry deleted is the most recently loaded one.
unload_model_pops_last(loaded, model_name) ==
    IF InList(model_name, loaded)
    THEN [loaded |-> SubSeq(loaded, 1, Len(loaded) - 1), ret |-> "True"]
    ELSE [loaded |-> loaded, ret |-> "False"]

\* unload_model(model_name): [loaded, ret]
unload_model(loaded, model_name) ==
    IF InList(model_name, loaded)
    THEN [loaded |-> ListRemove(loaded, model_name), ret |-> "True"]
    ELSE [loaded |-> loaded, ret |-> "False"]

\* unload_all_models(): deleting from the dict the loop iterates over makes
\* the iterator raise at its next step.
unload_all_models(loaded) ==
    IF loaded = <<>> THEN [loaded |-> loaded, ret |-> "True"]
    ELSE [loaded |-> Tail(loaded), ret |-> "RuntimeError"]

---------------------------------------------------------------------------
(* Filters *)

\* Python values, written as their repr: a str, a bool, None.
Str(x) == "'" \o x \o "'"

Bool(b) == IF b THEN "True" ELSE "False"

None == "None"

\* descriptor.get(keyword): None for a key the descriptor does not hold.
Get(descriptor, keyword) ==
    CASE keyword = "type" -> Str(descriptor.type)
      [] keyword = "download_all" -> Bool(descriptor.download_all)
      [] OTHER -> None

\* Faulty variant: each keyword filters self.models, so only the last counts.
RECURSIVE last_keyword_from(_, _, _, _)
last_keyword_from(catalog, filtered_models, kwargs, k) ==
    IF k > Len(kwargs) THEN filtered_models
    ELSE last_keyword_from(catalog,
            [model \in {m \in DOMAIN catalog :
                           Get(catalog[m], kwargs[k][1]) = kwargs[k][2]}
                |-> catalog[model]],
            kwargs, k + 1)

get_filtered_models_last_keyword(catalog, kwargs) ==
    last_keyword_from(catalog, catalog, kwargs, 1)

\* The loop over the keywords: each pass keeps, of the models kept so far,
\* those whose value for the keyword equals the given one.
RECURSIVE get_filtered_models_from(_, _, _)
get_filtered_models_from(filtered_models, kwargs, k) ==
    IF k > Len(kwargs) THEN filtered_models
    ELSE LET iterating_models == filtered_models IN
         get_filtered_models_from(
            [model \in {m \in DOMAIN iterating_models :
                           Get(iterating_models[m], kwargs[k][1]) = kwargs[k][2]}
                |-> iterating_models[model]],
            kwargs, k + 1)

\* get_filtered_models(**kwargs); kwargs is the sequence of <<keyword, value>>.
get_filtered_models(catalog, kwargs) == get_filtered_models_from(catalog, kwargs, 1)

\* get_filtered_model_names(**kwargs)
get_filtered_model_names(catalog, kwargs) == KeysOf(get_filtered_models(catalog, kwargs))

\* The loop of download_all_models from names[k] on.  download_model's
\* result is dropped; an exception that leaves it leaves the loop.
RECURSIVE download_all_models_from(_, _, _, _, _, _)
download_all_models_from(self, names, k, outs, sources, log) ==
    IF k > Len(names) THEN Result(self, "True", log)
    ELSE
    LET model == names[k] IN
    IF ~check_model_available(self.models, self.fs, model)
    THEN LET r == download_model(self, model, outs[model], sources[model])
             log1 == Append(log, "Downloading " \o model) \o r.log
         IN  IF r.ret \in {"True", "False"}
             THEN download_all_models_from(r.self, names, k + 1, outs, sources, log1)
             ELSE Result(r.self, r.ret, log1)
    ELSE download_all_models_from(self, names, k + 1, outs, sources,
                                  Append(log, model \o " is already downloaded."))

\* download_all_models(); outs and sources give, per name, what the
\* environment answers to that name's transports and to its reload.
download_all_models(self, outs, sources) ==
    download_all_models_from(self,
        get_filtered_model_names(self.models, << <<"download_all", Bool(TRUE)>> >>),
        1, outs, sources, <<>>)

---------------------------------------------------------------------------
(* Compute devices *)

\* A Python value that is None or a list.
NoneValue == [is_none |-> TRUE, items |-> <<>>]

List(items) == [is_none |-> FALSE, items |-> items]

\* The devices torch.cuda can report: get_device_name(i) and
\* get_device_capability(i) = (major, minor).
HardwareDevices ==
    { [name |-> "GTX 1080", capability |-> <<6, 1>>],
      [name |-> "RTX 2080", capability |-> <<7, 5>>],
      [name |-> "RTX 3090", capability |-> <<8, 6>>] }

\* What torch.cuda can report: not available, or available with
\* device_count() devices (possibly none).
TorchStates ==
    {[available |-> FALSE, devices |-> <<>>]}
    \cup {[available |-> TRUE, devices |-> d] :
             d \in UNION {[1..k -> HardwareDevices] : k \in 0..MaxDevices}}

\* The dict built for device i (ids start at 0).
cuda_device(torch, i) ==
    [id |-> i, name |-> torch.devices[i + 1].name,
     sm |-> torch.devices[i + 1].capability[1] * 10 + torch.devices[i + 1].capability[2]]

\* Where sorted(..., reverse=True) places x among the elements before it:
\* after every element whose key is not smaller (the sort is stable).
RECURSIVE insert_by_sm(_, _)
insert_by_sm(sorted, x) ==
    IF sorted = <<>> THEN <<x>>
    ELSE IF Head(sorted).sm >= x.sm THEN <<Head(sorted)>> \o insert_by_sm(Tail(sorted), x)
    ELSE <<x>> \o sorted

\* sorted(cuda_arch, key=lambda k: k["sm"], reverse=True)
RECURSIVE sorted_by_sm(_, _)
sorted_by_sm(cuda_arch, done) ==
    IF cuda_arch = <<>> THEN done
    ELSE sorted_by_sm(Tail(cuda_arch), insert_by_sm(done, Head(cuda_arch)))

\* Faulty variant: a single winner.
recommended_first(cuda_arch) ==
    IF cuda_arch = <<>> THEN <<>> ELSE <<cuda_arch[1]>>

\* [x for x in cuda_arch if x["sm"] == cuda_arch[0]["sm"]]
recommended(cuda_arch) ==
    SelectSeq(cuda_arch, LAMBDA x : x.sm = cuda_arch[1].sm)

\* get_cuda_devices(): the pair it returns.
get_cuda_devices(torch) ==
    IF torch.available
    THEN LET number_of_cuda_devices == Len(torch.devices)
             cuda_arch == sorted_by_sm(
                 [k \in 1..number_of_cuda_devices |-> cuda_device(torch, k - 1)], <<>>)
         IN  [cuda_arch |-> List(cuda_arch),
              recommended_gpu |-> List(recommended(cuda_arch))]
    ELSE [cuda_arch |-> NoneValue, recommended_gpu |-> NoneValue]

\* A machine without CUDA.
NoCuda == [available |-> FALSE, devices |-> <<>>]

---------------------------------------------------------------------------
(* Calls in flight *)

Callers == 1..MaxCallers

\* A caller that is not inside download_model.
IdleFrame ==
    [pc |-> "idle", model_name |-> "", i |-> 0, download_url |-> Unbound,
     download_name |-> Unbound, download_path |-> Unbound, open |-> "", log |-> <<>>]

NoCalls == [t \in Callers |-> IdleFrame]

---------------------------------------------------------------------------
(* The aggregate ModelManager (src/nataili/model_manager/super.py) *)

\* The statements of ModelManager.__init__, in order: the attribute
\* assigned, the class constructed and the attributes of self its
\* arguments read.
Statements ==
    << [attr |-> "aitemplate", class |-> "AITemplateModelManager", args |-> <<>>],
       [attr |-> "blip",       class |-> "BlipModelManager",       args |-> <<>>],
       [attr |-> "clip",       class |-> "ClipModelManager",       args |-> <<>>],
       [attr |-> "codeformer", class |-> "CodeFormerModelManager",
        args |-> <<"gfpgan", "esrgan">>],
       [attr |-> "compvis",    class |-> "CompVisModelManager",    args |-> <<>>],
       [attr |-> "esrgan",     class |-> "EsrganModelManager",     args |-> <<>>],
       [attr |-> "gfpgan",     class |-> "GfpganModelManager",     args |-> <<>>] >>

\* An object without attributes.
NoAttributes == [a \in {} |-> 0]

\* ModelManager() has not been called.
NoAggregate == [pc |-> 0, attrs |-> NoAttributes, exc |-> ""]

\* A sub-manager as its constructor leaves it: the base constructor's
\* fields, and the managers it was given.
SubManager(class, given, torch) ==
    [class |-> class, given |-> given,
     loaded_models |-> <<>>,
     cuda_devices |-> get_cuda_devices(torch).cuda_arch,
     recommended_gpu |-> get_cuda_devices(torch).recommended_gpu]

\* The first attribute of self the arguments read that self does not have,
\* "" when there is none (arguments are evaluated left to right).
RECURSIVE first_missing(_, _, _)
first_missing(attrs, args, k) ==
    IF k > Len(args) THEN ""
    ELSE IF args[k] \notin DOMAIN attrs THEN args[k]
    ELSE first_missing(attrs, args, k + 1)

\* Statement m.pc of ModelManager.__init__ on the object m.
construct_step(m, torch) ==
    LET s == Statements[m.pc]
        missing == first_missing(m.attrs, s.args, 1)
    IN  IF missing # ""
        THEN [m EXCEPT !.exc = "AttributeError: " \o missing]
        ELSE LET given == [k \in 1..Len(s.args) |-> m.attrs[s.args[k]].class]
                 value == SubManager(s.class, given, torch)
             IN  [m EXCEPT !.pc = @ + 1,
                           !.attrs = [a \in DOMAIN @ \cup {s.attr} |->
                                         IF a = s.attr THEN value ELSE @[a]]]

\* The attributes the test scripts use once mm = ModelManager() has returned.
UsedByTests == {"esrgan", "gfpgan", "clip", "aitemplate"}

---------------------------------------------------------------------------
(* The image embedding cache (src/nataili/clip/image.py) *)

Images == 1..MaxImages

FileNames == 1..MaxFiles

\* pil_image.tobytes(): the pixel data without the size; images 1 and 2
\* are the same pixel data in two shapes.
tobytes(pil_image) == IF pil_image = 1 THEN 2 ELSE pil_image

HexDigits == << "0", "1", "2", "3", "4", "5", "6", "7",
               "8", "9", "a", "b", "c", "d", "e", "f" >>

\* hashlib.sha256(...).hexdigest(), on the abstract bytes: one hex digit.
Sha256(bytes) == HexDigits[((5 * bytes + 3) % 16) + 1]

\* The array encode_image gives for the image, normalised.
image_embed_array(pil_image) == 10 + pil_image

\* self.cache: kv (hash -> file name) and the files of cache_dir
\* (file name -> array saved, 0 = no such file).
NoCache == [kv |-> NoAttributes, files |-> [f \in FileNames |-> 0]]

\* What the environment answers to one call:
\*   "ok"      the model encodes the image and the array is saved;
\*   "encode"  preprocessing or encode_image raises;
\*   "save"    np.save raises after it created the file.
EmbedOutcomes == {"ok", "encode", "save"}

\* Faulty variant: the test of the cache is missing.
ImageEmbed_always_embeds(c, pil_image, filename, out) ==
    LET image_hash == Sha256(tobytes(pil_image)) IN
    IF out = "encode"
    THEN [cache |-> c, ret |-> "RuntimeError", log |-> <<"encode_image">>]
    ELSE [cache |-> [kv |-> [h \in DOMAIN c.kv \cup {image_hash} |->
                                IF h = image_hash THEN filename ELSE c.kv[h]],
                     files |-> [c.files EXCEPT ![filename] = image_embed_array(pil_image)]],
          ret |-> image_hash, log |-> <<"encode_image", "np.save">>]

\* ImageEmbed.__call__(pil_image); filename is what uuid4() gives.
\* [cache, ret, log]: ret is the hash returned, or the exception as a string.
ImageEmbed(c, pil_image, filename, out) ==
    LET image_hash == Sha256(tobytes(pil_image)) IN
    IF image_hash \in DOMAIN c.kv
    THEN [cache |-> c, ret |-> image_hash, log |-> <<>>]
    ELSE IF out = "encode"
    THEN [cache |-> c, ret |-> "RuntimeError", log |-> <<"encode_image">>]
    ELSE IF out = "save"
    THEN [cache |-> [c EXCEPT !.files[filename] = image_embed_array(pil_image)],
          ret |-> "OSError", log |-> <<"encode_image", "np.save">>]
    ELSE [cache |-> [kv |-> [h \in DOMAIN c.kv \cup {image_hash} |->
                                IF h = image_hash THEN filename ELSE c.kv[h]],
                     files |-> [c.files EXCEPT ![filename] = image_embed_array(pil_image)]],
          ret |-> image_hash, log |-> <<"encode_image", "np.save">>]

---------------------------------------------------------------------------
(* The state machine *)

Call(op, arg, ret, log) == [op |-> op, arg |-> arg, ret |-> ret, log |-> log]

\* The call's effect on the manager's fields.
Becomes(self) ==
    /\ models' = self.models
    /\ available_models' = self.available_models
    /\ download_reference' = self.download_reference
    /\ fs' = self.fs

\* Names a caller may pass: the catalogs' names and one no catalog holds.
CallNames == Names \cup {"zz"}

\* The lists taint_models is called with: the names, in any order.
TaintLists == {names \in UNION {[1..k -> Names] : k \in 0..Cardinality(Names)} :
                 \A i, j \in DOMAIN names : i # j => names[i] # names[j]}

Init ==
    /\ models = EmptyCatalog
    /\ available_models = <<>>
    /\ loaded_models = <<>>
    /\ tainted_models = [exists |-> FALSE, items |-> <<>>]
    /\ download_reference \in BOOLEAN
    /\ fs \in [Paths -> 0..MaxContent]
    /\ last = Call("__init__", <<>>, "None", <<>>)
    /\ calls = NoCalls
    /\ torch_cuda = NoCuda
    /\ cuda_devices = get_cuda_devices(torch_cuda).cuda_arch
    /\ recommended_gpu = get_cuda_devices(torch_cuda).recommended_gpu
    /\ mm = NoAggregate
    /\ cache = NoCache

\* init()
DoInit ==
    \E source \in (IF download_reference THEN Sources ELSE Sources \ {"remote"}) :
        LET r == init(Self, source) IN
        /\ Becomes(r.self)
        /\ last' = Call("init", <<>>, r.ret, r.log)
        /\ UNCHANGED <<calls, devices, mm, cache, loaded_models, tainted_models>>

\* check_model_available(model_name)
DoCheckModelAvailable ==
    \E model_name \in CallNames :
        /\ last' = Call("check_model_available", <<model_name>>,
                        IF check_model_available(models, fs, model_name)
                        THEN "True" ELSE "False", <<>>)
        /\ UNCHANGED <<calls, devices, mm, cache, models, available_models, loaded_models, tainted_models,
                       download_reference, fs>>

\* validate_model(model_name, skip_checksum)
DoValidateModel ==
    \E model_name \in CallNames, skip_checksum \in BOOLEAN :
        /\ last' = Call(IF skip_checksum THEN "validate_model(skip_checksum)"
                        ELSE "validate_model", <<model_name>>,
                        IF model_name \notin DOMAIN models THEN "KeyError"
                        ELSE IF ~skip_checksum /\
                                validate_raises_from(fs, get_model_files(models, model_name), 1)
                        THEN "IsADirectoryError"
                        ELSE IF validate_model(models, fs, model_name, skip_checksum)
                        THEN "True" ELSE "False", <<>>)
        /\ UNCHANGED <<calls, devices, mm, cache, models, available_models, loaded_models, tainted_models,
                       download_reference, fs>>

\* The outcomes of a call that makes no transport: none is read.
NoOutcomes(model_name) ==
    IF model_name \in DOMAIN models
    THEN [i \in 1..Len(get_model_download(models, model_name)) |-> 0]
    ELSE <<>>

\* download_model(model_name) taking the short-circuit or failing the lookup
DoDownloadModelNoTransport ==
    \E model_name \in CallNames :
        /\ InList(model_name, available_models) \/ model_name \notin DOMAIN models
        /\ LET r == download_model(Self, model_name, NoOutcomes(model_name), "none") IN
           /\ Becomes(r.self)
           /\ last' = Call("download_model", <<model_name>>, r.ret, r.log)
        /\ UNCHANGED <<calls, devices, mm, cache, loaded_models, tainted_models>>

\* The catalog loads to tell apart for a call: all of them when the call
\* gets as far as its reload, one otherwise.
ReloadSources(model_name, outs) ==
    IF download_model(Self, model_name, outs, "none").ret = CatalogUnavailable
    THEN IF download_reference THEN Sources ELSE Sources \ {"remote"}
    ELSE {"none"}

\* download_model(model_name) going through the download list
DoDownloadModel ==
    \E model_name \in DOMAIN models :
        /\ ~InList(model_name, available_models)
        /\ \E outs \in [1..Len(get_model_download(models, model_name)) -> Outcomes] :
           \E source \in ReloadSources(model_name, outs) :
            LET r == download_model(Self, model_name, outs, source) IN
            /\ Becomes(r.self)
            /\ last' = Call("download_model", <<model_name>>, r.ret, r.log)
        /\ UNCHANGED <<calls, devices, mm, cache, loaded_models, tainted_models>>

\* Another process or the user creates, overwrites or deletes a cache file.
External ==
    \E p \in Paths, c \in 0..MaxContent :
        /\ fs[p] # c
        /\ fs' = [fs EXCEPT ![p] = c]
        /\ last' = Call("external", <<>>, "None", <<>>)
        /\ UNCHANGED <<calls, devices, mm, cache, models, available_models, loaded_models, tainted_models,
                       download_reference>>

\* taint_model(model_name)
DoTaintModel ==
    \E model_name \in CallNames :
        LET r == taint_model(TaintState, model_name) IN
        /\ available_models' = r.available_models
        /\ tainted_models' = r.tainted_models
        /\ last' = Call("taint_model", <<model_name>>,
                        IF r.exc # "" THEN r.exc ELSE "None", <<>>)
        /\ UNCHANGED <<calls, devices, mm, cache, models, loaded_models, download_reference, fs>>

\* taint_models(models)
DoTaintModels ==
    \E names \in TaintLists :
        LET r == taint_models(TaintState, names) IN
        /\ available_models' = r.available_models
        /\ tainted_models' = r.tainted_models
        /\ last' = Call("taint_models", names,
                        IF r.exc # "" THEN r.exc ELSE "None", <<>>)
        /\ UNCHANGED <<calls, devices, mm, cache, models, loaded_models, download_reference, fs>>

\* A model-type manager's load(model_name) registers the handle.
DoRegisterLoaded ==
    \E model_name \in Names :
        /\ loaded_models' = register_loaded(loaded_models, model_name)
        /\ last' = Call("load", <<model_name>>, "True", <<>>)
        /\ UNCHANGED <<calls, devices, mm, cache, models, available_models, tainted_models, download_reference, fs>>

\* unload_model(model_name)
DoUnloadModel ==
    \E model_name \in CallNames :
        LET r == unload_model(loaded_models, model_name) IN
        /\ loaded_models' = r.loaded
        /\ last' = Call("unload_model", <<model_name>>, r.ret, <<>>)
        /\ UNCHANGED <<calls, devices, mm, cache, models, available_models, tainted_models, download_reference, fs>>

\* unload_all_models()
DoUnloadAllModels ==
    LET r == unload_all_models(loaded_models) IN
    /\ loaded_models' = r.loaded
    /\ last' = Call("unload_all_models", <<>>, r.ret, <<>>)
    /\ UNCHANGED <<calls, devices, mm, cache, models, available_models, tainted_models, download_reference, fs>>

\* download_all_models is the loop
\*     for model in names: if not check_model_available(model): download_model(model)
\* over a list of names taken before the loop; an iteration is a
\* DoCheckModelAvailable step followed by a DoDownloadModel* step, for a name
\* the catalog may no longer hold.  The call as one action is
\* DoDownloadAllModels of SpecBatch.
Next ==
    \/ DoInit
    \/ DoTaintModel
    \/ DoTaintModels
    \/ DoRegisterLoaded
    \/ DoUnloadModel
    \/ DoUnloadAllModels
    \/ DoCheckModelAvailable
    \/ DoValidateModel
    \/ DoDownloadModelNoTransport
    \/ DoDownloadModel
    \/ External

Spec == Init /\ [][Next]_vars

---------------------------------------------------------------------------
(* The filter operations, on the catalogs a load can install *)

Keywords == {"type", "download_all", "nsfw"}

PredicateValues == {Str("ckpt"), Bool(TRUE), Bool(FALSE), None}

\* **kwargs: keyword arguments, each keyword at most once.
Predicates ==
    {kwargs \in UNION {[1..k -> Keywords \X PredicateValues] : k \in 0..MaxPredicates} :
        \A i, j \in DOMAIN kwargs : i # j => kwargs[i][1] # kwargs[j][1]}

\* The constructor with download_reference left at its default, on a cache
\* that holds the file of "b".
InitFilters ==
    /\ models = EmptyCatalog
    /\ available_models = <<>>
    /\ loaded_models = <<>>
    /\ tainted_models = [exists |-> FALSE, items |-> <<>>]
    /\ download_reference = TRUE
    /\ fs = [p \in AllPaths |-> IF p = "m/b1" THEN 1 ELSE 0]
    /\ last = Call("__init__", <<>>, "None", <<>>)
    /\ calls = NoCalls
    /\ torch_cuda = NoCuda
    /\ cuda_devices = get_cuda_devices(torch_cuda).cuda_arch
    /\ recommended_gpu = get_cuda_devices(torch_cuda).recommended_gpu
    /\ mm = NoAggregate
    /\ cache = NoCache

\* init(), the remote catalog being the one with or without the manual artifacts
DoInitServed ==
    \E remote \in {RemoteCatalog, FullCatalog} :
    \E source \in Sources :
        LET r == init(Manager(remote, LocalCatalog), source) IN
        /\ Becomes(r.self)
        /\ last' = Call("init", <<>>, r.ret, r.log)
        /\ UNCHANGED <<calls, devices, mm, cache, loaded_models, tainted_models>>

\* get_filtered_model_names(**kwargs)
DoGetFilteredModelNames ==
    \E kwargs \in Predicates :
        /\ last' = Call("get_filtered_model_names", kwargs,
                        get_filtered_model_names(models, kwargs), <<>>)
        /\ UNCHANGED <<calls, devices, mm, cache, models, available_models, loaded_models,
                       tainted_models, download_reference, fs>>

NextFilters ==
    \/ DoInitServed
    \/ DoRegisterLoaded
    \/ DoGetFilteredModelNames

SpecFilters == InitFilters /\ [][NextFilters]_vars

---------------------------------------------------------------------------
(* The batch download, on a remote catalog that lists all four artifacts *)

\* A cache that holds any of the files of "a" and "b".
InitBatch ==
    /\ models = EmptyCatalog
    /\ available_models = <<>>
    /\ loaded_models = <<>>
    /\ tainted_models = [exists |-> FALSE, items |-> <<>>]
    /\ download_reference = TRUE
    /\ fs \in {f \in [AllPaths -> 0..MaxContent] : \A p \in AllPaths \ Paths : f[p] = 0}
    /\ last = Call("__init__", <<>>, "None", <<>>)
    /\ calls = NoCalls
    /\ torch_cuda = NoCuda
    /\ cuda_devices = get_cuda_devices(torch_cuda).cuda_arch
    /\ recommended_gpu = get_cuda_devices(torch_cuda).recommended_gpu
    /\ mm = NoAggregate
    /\ cache = NoCache

\* What the environment can answer to the entry: a literal write asks nothing.
EntryOutcomes(d) == IF Has(d, "file_content") THEN {0} ELSE Outcomes

\* The names the batch goes through.
BatchNames == Range(get_filtered_model_names(models, << <<"download_all", Bool(TRUE)>> >>))

\* Per name of the batch, an answer to each entry of its download list.
BatchOutcomes ==
    {outs \in [BatchNames -> UNION {[1..k -> Outcomes] : k \in 0..2}] :
        \A n \in BatchNames :
            /\ Len(outs[n]) = Len(models[n].config.download)
            /\ \A i \in 1..Len(outs[n]) :
                  outs[n][i] \in EntryOutcomes(models[n].config.download[i])}

\* download_all_models()
DoDownloadAllModels ==
    \E outs \in BatchOutcomes :
    \E sources \in [BatchNames -> Sources] :
        LET r == download_all_models(Manager(FullCatalog, LocalCatalog), outs, sources) IN
        /\ Becomes(r.self)
        /\ last' = Call("download_all_models", <<>>, r.ret, r.log)
        /\ UNCHANGED <<calls, devices, mm, cache, loaded_models, tainted_models>>

NextBatch ==
    \/ DoInitServed
    \/ DoDownloadAllModels

SpecBatch == InitBatch /\ [][NextBatch]_vars

---------------------------------------------------------------------------
(* download_model step by step, with several callers inside it *)

(* A caller's position in download_model:                                  *)
(*   "idle"      not in a call;                                            *)
(*   "entry"     at the head of the loop body, for download[i];            *)
(*   "input"     in the manual branch, blocked in input("");               *)
(*   "request"   in download_file, the destination found missing, at       *)
(*               requests.get;                                             *)
(*   "writing"   in download_file, the destination open for writing;       *)
(*   "validate"  past the loop, at validate_model;                         *)
(*   "reload"    validated, at self.init().                                *)
(* The remote and the packaged catalog are both the one with the manual    *)
(* artifacts, so the lists a call took at its start are those of the       *)
(* catalog throughout.                                                     *)

CallsManager == Manager(FullCatalog, FullCatalog)

\* The manager after the constructor and init(), on an empty cache.
InitCalls ==
    /\ models = FullCatalog
    /\ available_models = <<>>
    /\ loaded_models = <<>>
    /\ tainted_models = [exists |-> FALSE, items |-> <<>>]
    /\ download_reference = TRUE
    /\ fs = [p \in AllPaths |-> 0]
    /\ last = Call("init", <<>>, "None", <<"GET remote_db">>)
    /\ calls = NoCalls
    /\ torch_cuda = NoCuda
    /\ cuda_devices = get_cuda_devices(torch_cuda).cuda_arch
    /\ recommended_gpu = get_cuda_devices(torch_cuda).recommended_gpu
    /\ mm = NoAggregate
    /\ cache = NoCache

\* The locals of caller t's call, over the cache as it is now.
FrameLocals(t) ==
    [fs |-> fs, download_url |-> calls[t].download_url,
     download_name |-> calls[t].download_name,
     download_path |-> calls[t].download_path, log |-> calls[t].log, exc |-> ""]

\* download and files, as the call took them at its start.
FrameDownload(t) == get_model_download(models, calls[t].model_name)

FrameFiles(t) == get_model_files(models, calls[t].model_name)

\* The entry at hand binds the locals it has keys for.
BoundLocals(t) ==
    LET d == FrameDownload(t)[calls[t].i] IN
    [FrameLocals(t) EXCEPT
        !.download_url  = IF Has(d, "file_url")  THEN d.file_url  ELSE @,
        !.download_name = IF Has(d, "file_name") THEN d.file_name ELSE @,
        !.download_path = IF Has(d, "file_path") THEN d.file_path ELSE @]

\* file_path of the entry at hand.
FramePath(t) ==
    LET d == FrameDownload(t)[calls[t].i] IN
    IF Has(d, "file_path") THEN Join(d.file_path, d.file_name)
    ELSE FrameFiles(t)[calls[t].i].path

IsPlain(d) == d.keys \cap {"manual", "file_content", "symlink", "git", "unzip"} = {}

\* The call of caller t ends: it returns ret or ret is the exception that leaves it.
Return(t, ret, log) ==
    /\ calls' = [calls EXCEPT ![t] = IdleFrame]
    /\ last' = Call("download_model", <<calls[t].model_name>>, ret, log)

\* The frame after the loop body: the next entry, or past the loop.
Advance(t, st) ==
    /\ calls' = [calls EXCEPT ![t] =
                    [@ EXCEPT !.i = @ + 1,
                              !.pc = IF calls[t].i + 1 > Len(FrameDownload(t))
                                     THEN "validate" ELSE "entry",
                              !.download_url = st.download_url,
                              !.download_name = st.download_name,
                              !.download_path = st.download_path,
                              !.open = "",
                              !.log = st.log]]
    /\ last' = last

\* The artifacts the callers ask for: those with a transfer or a prompt.
WaitingNames ==
    {n \in DOMAIN FullCatalog :
        \E i \in 1..Len(FullCatalog[n].config.download) :
            LET d == FullCatalog[n].config.download[i] IN IsPlain(d) \/ Has(d, "manual")}

\* A caller enters download_model: the test of available_models, and the
\* lists of the artifact.
Enter(t) ==
    \E model_name \in WaitingNames :
        /\ calls[t].pc = "idle"
        /\ IF InList(model_name, available_models)
           THEN /\ last' = Call("download_model", <<model_name>>, "True",
                                 <<"already available">>)
                /\ calls' = calls
           ELSE /\ calls' = [calls EXCEPT ![t] =
                               [IdleFrame EXCEPT !.pc = "entry",
                                                 !.model_name = model_name, !.i = 1]]
                /\ last' = last
        /\ UNCHANGED <<devices, mm, cache, models, available_models, loaded_models, tainted_models,
                       download_reference, fs>>

\* The loop body for a manual entry, up to input("").
Prompt(t) ==
    /\ calls[t].pc = "entry"
    /\ Has(FrameDownload(t)[calls[t].i], "manual")
    /\ LET st == manual_step(BoundLocals(t), 0) IN
       IF st.exc # "" THEN Return(t, st.exc, st.log)
       ELSE /\ calls' = [calls EXCEPT ![t] =
                            [@ EXCEPT !.pc = "input",
                                      !.download_url = st.download_url,
                                      !.download_name = st.download_name,
                                      !.download_path = st.download_path,
                                      !.log = st.log]]
            /\ last' = last
    /\ UNCHANGED <<devices, mm, cache, models, available_models, loaded_models, tainted_models,
                   download_reference, fs>>

\* While a caller is blocked in input(""), the user places the file the
\* prompt names.
UserPlacesFile ==
    \E t \in Callers, c \in Contents :
        LET dest == Join(calls[t].download_path, calls[t].download_name) IN
        /\ calls[t].pc = "input"
        /\ fs[dest] # c
        /\ fs' = [fs EXCEPT ![dest] = c]
        /\ UNCHANGED <<calls, devices, mm, cache, models, available_models, loaded_models,
                       tainted_models, download_reference, last>>

\* The user presses ENTER: input("") returns and the loop continues.
Confirm(t) ==
    /\ calls[t].pc = "input"
    /\ Advance(t, Emit(FrameLocals(t), "ENTER"))
    /\ UNCHANGED <<devices, mm, cache, models, available_models, loaded_models, tainted_models,
                   download_reference, fs>>

\* The loop body for a plain entry whose destination is missing, up to
\* requests.get in download_file.
StartTransfer(t) ==
    /\ calls[t].pc = "entry"
    /\ IsPlain(FrameDownload(t)[calls[t].i])
    /\ ~check_file_available(fs, FramePath(t))
    /\ LET st == BoundLocals(t) IN
       IF st.download_url = Unbound THEN Return(t, "UnboundLocalError", st.log)
       ELSE /\ calls' = [calls EXCEPT ![t] =
                            [@ EXCEPT !.pc = "request",
                                      !.download_url = st.download_url,
                                      !.download_name = st.download_name,
                                      !.download_path = st.download_path,
                                      !.log = Append(st.log, "GET " \o st.download_url)]]
            /\ last' = last
    /\ UNCHANGED <<devices, mm, cache, models, available_models, loaded_models, tainted_models,
                   download_reference, fs>>

\* requests.get returns and open(full_path, "wb") creates or empties the
\* destination; or the request raises.
OpenDestination(t) ==
    /\ calls[t].pc = "request"
    /\ \E ok \in BOOLEAN :
         IF ok
         THEN /\ fs' = [fs EXCEPT ![FramePath(t)] = Truncated]
              /\ calls' = [calls EXCEPT ![t] = [@ EXCEPT !.pc = "writing",
                                                         !.open = FramePath(t)]]
              /\ last' = last
         ELSE /\ Return(t, "ConnectionError", calls[t].log)
              /\ fs' = fs
    /\ UNCHANGED <<devices, mm, cache, models, available_models, loaded_models, tainted_models,
                   download_reference>>

\* The chunks are written and the file is closed; or the stream breaks off.
FinishTransfer(t) ==
    /\ calls[t].pc = "writing"
    /\ \E out \in Contents \cup {-1} :
         IF out > 0
         THEN /\ fs' = [fs EXCEPT ![calls[t].open] = out]
              /\ Advance(t, Emit(FrameLocals(t), "write " \o calls[t].open))
         ELSE /\ Return(t, "ConnectionError", Append(calls[t].log, "write " \o calls[t].open))
              /\ fs' = fs
    /\ UNCHANGED <<devices, mm, cache, models, available_models, loaded_models, tainted_models,
                   download_reference>>

\* The loop body for any other entry: a plain entry whose destination
\* exists, or a strategy that involves no wait.
OtherEntry(t) ==
    /\ calls[t].pc = "entry"
    /\ LET d == FrameDownload(t)[calls[t].i] IN
       /\ ~Has(d, "manual")
       /\ IsPlain(d) => check_file_available(fs, FramePath(t))
       /\ \E out \in EntryOutcomes(d) :
            LET st == process_entry(FrameLocals(t), FrameDownload(t), FrameFiles(t),
                                    calls[t].i, out) IN
            /\ fs' = st.fs
            /\ IF st.exc # "" THEN Return(t, st.exc, st.log) ELSE Advance(t, st)
    /\ UNCHANGED <<devices, mm, cache, models, available_models, loaded_models, tainted_models,
                   download_reference>>

\* validate_model(model_name) and the return False.
Validate(t) ==
    /\ calls[t].pc = "validate"
    /\ IF validate_raises_from(fs, FrameFiles(t), 1)
       THEN Return(t, "IsADirectoryError", calls[t].log)
       ELSE IF ~validate_model(models, fs, calls[t].model_name, FALSE)
       THEN Return(t, "False", calls[t].log)
       ELSE /\ calls' = [calls EXCEPT ![t] = [@ EXCEPT !.pc = "reload"]]
            /\ last' = last
    /\ UNCHANGED <<devices, mm, cache, models, available_models, loaded_models, tainted_models,
                   download_reference, fs>>

\* self.init() and the return True.
Reload(t) ==
    /\ calls[t].pc = "reload"
    /\ \E source \in Sources :
         LET r == init(CallsManager, source) IN
         /\ Becomes(r.self)
         /\ Return(t, IF r.ret = "None" THEN "True" ELSE r.ret, calls[t].log \o r.log)
    /\ UNCHANGED <<devices, mm, cache, loaded_models, tainted_models>>

NextCalls ==
    \/ UserPlacesFile
    \/ \E t \in Callers :
         \/ Enter(t)
         \/ Prompt(t)
         \/ Confirm(t)
         \/ StartTransfer(t)
         \/ OpenDestination(t)
         \/ FinishTransfer(t)
         \/ OtherEntry(t)
         \/ Validate(t)
         \/ Reload(t)

SpecCalls == InitCalls /\ [][NextCalls]_vars

---------------------------------------------------------------------------
(* The constructor on every machine, and get_cuda_devices *)

InitDevices ==
    /\ models = EmptyCatalog
    /\ available_models = <<>>
    /\ loaded_models = <<>>
    /\ tainted_models = [exists |-> FALSE, items |-> <<>>]
    /\ download_reference \in BOOLEAN
    /\ fs = [p \in Paths |-> 0]
    /\ last = Call("__init__", <<>>, "None", <<>>)
    /\ calls = NoCalls
    /\ torch_cuda \in TorchStates
    /\ cuda_devices = get_cuda_devices(torch_cuda).cuda_arch
    /\ recommended_gpu = get_cuda_devices(torch_cuda).recommended_gpu
    /\ mm = NoAggregate
    /\ cache = NoCache

\* get_cuda_devices()
DoGetCudaDevices ==
    /\ last' = Call("get_cuda_devices", <<>>, get_cuda_devices(torch_cuda), <<>>)
    /\ UNCHANGED <<calls, devices, mm, cache, models, available_models, loaded_models,
                   tainted_models, download_reference, fs>>

NextDevices == DoGetCudaDevices

SpecDevices == InitDevices /\ [][NextDevices]_vars

---------------------------------------------------------------------------
(* download_model on catalogs that use every strategy *)

Artifact(n) ==
    CASE n = "a" -> ModelA [] n = "b" -> ModelB [] n = "c" -> ModelC
      [] n = "g" -> ModelG [] n = "h" -> ModelH [] n = "r" -> ModelR
      [] n = "s" -> ModelS [] n = "x" -> ModelX [] n = "y" -> ModelY
      [] OTHER -> ModelZ

CatalogOf(names) == [n \in names |-> Artifact(n)]

\* The catalogs a deployment may serve, remotely and packaged alike.
StrategyCatalogs ==
    {CatalogOf(names) : names \in {{"a", "c"}, {"b", "g"}, {"r", "s"}, {"x"}, {"y"}, {"z"}}}

StrategyPaths == UNION {PathsOfDescriptor(Artifact(n)) : n \in Range(DictOrder)}

\* The paths a user or another process puts files at: those the file specs
\* name, and where the unzip branch looks for its archive.
UserPaths(catalog) ==
    UNION {{f.path : f \in Range(catalog[n].config.files)}
           \cup {ZipPath(e.file_name) :
                    e \in {e \in Range(catalog[n].config.download) :
                              Has(e, "file_name") /\ Has(e, "unzip")}} :
           n \in DOMAIN catalog}

\* The manager after the constructor and init(), on an empty cache.
InitStrategies ==
    /\ models \in StrategyCatalogs
    /\ available_models = <<>>
    /\ loaded_models = <<>>
    /\ tainted_models = [exists |-> FALSE, items |-> <<>>]
    /\ download_reference = TRUE
    /\ fs = [p \in StrategyPaths |-> 0]
    /\ last = Call("init", <<>>, "None", <<"GET remote_db">>)
    /\ calls = NoCalls
    /\ torch_cuda = NoCuda
    /\ cuda_devices = get_cuda_devices(torch_cuda).cuda_arch
    /\ recommended_gpu = get_cuda_devices(torch_cuda).recommended_gpu
    /\ mm = NoAggregate
    /\ cache = NoCache

\* download_model(model_name), the sources serving the catalog in place
DoDownloadModelServed ==
    \E model_name \in DOMAIN models :
    \E outs \in [1..Len(get_model_download(models, model_name)) -> Outcomes] :
    \E source \in Sources :
        LET r == download_model(Manager(models, models), model_name, outs, source) IN
        /\ Becomes(r.self)
        /\ last' = Call("download_model", <<model_name>>, r.ret, r.log)
        /\ UNCHANGED <<calls, devices, mm, cache, loaded_models, tainted_models>>

\* A user or another process creates, overwrites or deletes a file.
ExternalServed ==
    \E p \in UserPaths(models), c \in 0..MaxContent :
        /\ fs[p] # c
        /\ fs' = [fs EXCEPT ![p] = c]
        /\ last' = Call("external", <<>>, "None", <<>>)
        /\ UNCHANGED <<calls, devices, mm, cache, models, available_models, loaded_models,
                       tainted_models, download_reference>>

NextStrategies ==
    \/ DoDownloadModelServed
    \/ ExternalServed

SpecStrategies == InitStrategies /\ [][NextStrategies]_vars

---------------------------------------------------------------------------
(* download_model re-invoked for an artifact of plain downloads, on a      *)
(* network that works                                                      *)

\* The manager after the constructor and init(), on any cache.
InitRetry ==
    /\ download_reference \in BOOLEAN
    /\ models = IF download_reference THEN RemoteCatalog ELSE LocalCatalog
    /\ fs \in [Paths -> 0..MaxContent]
    /\ available_models = models_available(models, fs)
    /\ loaded_models = <<>>
    /\ tainted_models = [exists |-> FALSE, items |-> <<>>]
    /\ last = Call("init", <<>>, "None",
                   LoadCatalog(Self, IF download_reference THEN "remote" ELSE "local").log)
    /\ calls = NoCalls
    /\ torch_cuda = NoCuda
    /\ cuda_devices = get_cuda_devices(torch_cuda).cuda_arch
    /\ recommended_gpu = get_cuda_devices(torch_cuda).recommended_gpu
    /\ mm = NoAggregate
    /\ cache = NoCache

\* What a working server delivers for the entries of "a": the content the
\* catalog's digest is of, and any content for the file without a digest.
DeliveredForA == {outs \in [1..2 -> Contents] : Md5(outs[1]) = ModelA.config.files[1].md5sum}

\* download_model("a") once more; every transfer and the reload succeed.
Retry ==
    \E outs \in DeliveredForA :
    \E source \in {"remote", "local"} :
        LET r == download_model(Self, "a", outs, source) IN
        /\ Becomes(r.self)
        /\ last' = Call("download_model", <<"a">>, r.ret, r.log)
        /\ UNCHANGED <<calls, devices, mm, cache, loaded_models, tainted_models>>

NextRetry == Retry

\* The caller keeps re-invoking download_model.
SpecRetry == InitRetry /\ [][NextRetry]_vars /\ WF_vars(Retry)

---------------------------------------------------------------------------
(* The aggregate's constructor, statement by statement, on every machine *)

InitAggregate ==
    /\ models = EmptyCatalog
    /\ available_models = <<>>
    /\ loaded_models = <<>>
    /\ tainted_models = [exists |-> FALSE, items |-> <<>>]
    /\ download_reference = TRUE
    /\ fs = [p \in Paths |-> 0]
    /\ last = Call("__init__", <<>>, "None", <<>>)
    /\ calls = NoCalls
    /\ torch_cuda \in TorchStates
    /\ cuda_devices = get_cuda_devices(torch_cuda).cuda_arch
    /\ recommended_gpu = get_cuda_devices(torch_cuda).recommended_gpu
    /\ mm = NoAggregate
    /\ cache = NoCache

\* mm = ModelManager(): the object is allocated and __init__ entered.
CallModelManager ==
    /\ mm.pc = 0
    /\ mm' = [mm EXCEPT !.pc = 1]
    /\ UNCHANGED <<calls, devices, cache, models, available_models, loaded_models,
                   tainted_models, download_reference, fs, last>>

\* The next statement of __init__; the call ends when the last statement
\* is done or when a statement raises.
ConstructStep ==
    /\ mm.pc \in 1..Len(Statements)
    /\ mm.exc = ""
    /\ mm' = construct_step(mm, torch_cuda)
    /\ last' = IF mm'.exc # "" THEN Call("ModelManager", <<>>, mm'.exc, <<>>)
               ELSE IF mm'.pc > Len(Statements) THEN Call("ModelManager", <<>>, "mm", <<>>)
               ELSE last
    /\ UNCHANGED <<calls, devices, cache, models, available_models, loaded_models,
                   tainted_models, download_reference, fs>>

NextAggregate ==
    \/ CallModelManager
    \/ ConstructStep

SpecAggregate == InitAggregate /\ [][NextAggregate]_vars

---------------------------------------------------------------------------
(* ImageEmbed on one cache *)

InitImageCache ==
    /\ models = EmptyCatalog
    /\ available_models = <<>>
    /\ loaded_models = <<>>
    /\ tainted_models = [exists |-> FALSE, items |-> <<>>]
    /\ download_reference = TRUE
    /\ fs = [p \in Paths |-> 0]
    /\ last = Call("__init__", <<>>, "None", <<>>)
    /\ calls = NoCalls
    /\ torch_cuda = NoCuda
    /\ cuda_devices = get_cuda_devices(torch_cuda).cuda_arch
    /\ recommended_gpu = get_cuda_devices(torch_cuda).recommended_gpu
    /\ mm = NoAggregate
    /\ cache = NoCache

\* image_embed(pil_image); uuid4() gives a name no file of cache_dir has.
DoImageEmbed ==
    \E pil_image \in Images, filename \in FileNames, out \in EmbedOutcomes :
        /\ cache.files[filename] = 0
        /\ LET r == ImageEmbed(cache, pil_image, filename, out) IN
           /\ cache' = r.cache
           /\ last' = Call("ImageEmbed", <<pil_image>>, r.ret, r.log)
        /\ UNCHANGED <<calls, devices, mm, models, available_models, loaded_models,
                       tainted_models, download_reference, fs>>

NextImageCache == DoImageEmbed

SpecImageCache == InitImageCache /\ [][NextImageCache]_vars

---------------------------------------------------------------------------
(* Properties *)

\* The next state is the one a download_model(n) call returns in.
DownloadReturns(n) == last'.op = "download_model" /\ last'.arg = <<n>>

\* The call performed no network request and no file-system mutation.
NoEffects(log) == Range(log) \subseteq {"already available"}

\* Every file of the artifact exists under the cache root.
AllFilesExist(catalog, fsx, n) ==
    \A i \in 1..Len(catalog[n].config.files) :
        fsx[catalog[n].config.files[i].path] # 0

\* Every file of the artifact that declares a digest has that digest.
AllDigestsMatch(catalog, fsx, n) ==
    \A i \in 1..Len(catalog[n].config.files) :
        LET f == catalog[n].config.files[i] IN
        f.md5sum # NoMd5 => Md5(fsx[f.path]) = f.md5sum

\* The current state is the one a catalog load or a successful acquisition
\* (a download_model that went through the download list) leaves.
JustLoaded ==
    \/ last.op = "init" /\ last.ret = "None"
    \/ last.op = "download_model" /\ last.ret = "True"
       /\ last.log # <<"already available">>

\* C1 (as stated): whenever all files of an artifact of the catalog exist,
\* download_model(name) returns True and performs no network transfer and
\* no file-system mutation.
C1_IdempotentWhenFilesExist ==
    [][\A n \in Names :
          DownloadReturns(n) /\ check_model_available(models, fs, n)
          => last'.ret = "True" /\ NoEffects(last'.log) /\ fs' = fs]_vars

\* C1 (amended): whenever name is listed in available_models,
\* download_model(name) returns True, performs no network transfer and no
\* file-system mutation, and leaves the catalog and available_models as
\* they were.
C1_IdempotentWhenListed ==
    [][\A n \in CallNames :
          DownloadReturns(n) /\ InList(n, available_models)
          => /\ last'.ret = "True"
             /\ NoEffects(last'.log)
             /\ fs' = fs
             /\ models' = models
             /\ available_models' = available_models]_vars

\* C1 witness: a download_model call has short-circuited for a listed name
\* whose files are all on disk.
C1_Witness ==
    /\ last.op = "download_model"
    /\ last.ret = "True"
    /\ last.log = <<"already available">>
    /\ InList(last.arg[1], available_models)
    /\ check_model_available(models, fs, last.arg[1])

\* C2 (as stated): right after a catalog load or a successful acquisition a
\* name is in available_models iff every file of the artifact exists and
\* every declared digest matches.
C2_AvailableIffValid ==
    JustLoaded =>
        \A n \in Names :
            InList(n, available_models)
            <=> /\ n \in DOMAIN models
                /\ AllFilesExist(models, fs, n)
                /\ AllDigestsMatch(models, fs, n)

\* C2 (amended): right after a catalog load or a successful acquisition a
\* name is in available_models iff it is in the catalog and every file of
\* the artifact exists; declared digests are not compared.
C2_AvailableIffFilesExist ==
    JustLoaded =>
        \A n \in Names :
            InList(n, available_models)
            <=> (n \in DOMAIN models /\ AllFilesExist(models, fs, n))

\* C2 witness: a catalog load has listed an artifact one of whose files is
\* present with a digest other than the declared one.
C2_Witness ==
    /\ last.op = "init"
    /\ last.ret = "None"
    /\ InList("a", available_models)
    /\ ~AllDigestsMatch(models, fs, "a")

\* C3: every name in available_models is a key of models.
C3_AvailableSubsetOfModels ==
    Range(available_models) \subseteq DOMAIN models

\* C3 witness: a reload has replaced the catalog by one without "b" while
\* the file of "b" is on disk and another artifact is listed.
C3_Witness ==
    /\ JustLoaded
    /\ "b" \notin DOMAIN models
    /\ fs["m/b1"] # 0
    /\ available_models # <<>>
    /\ last.op = "download_model"

\* C4: the tainted set exists and no name is in both it and available_models.
C4_TaintedDisjointFromAvailable ==
    /\ tainted_models.exists
    /\ Range(tainted_models.items) \cap Range(available_models) = {}

\* C5: taint_model(name) completes without error; a name that was in
\* available_models is removed from it and added to the tainted collection.
C5_TaintCompletes ==
    [][\A n \in CallNames :
          last'.op = "taint_model" /\ last'.arg = <<n>>
          => /\ last'.ret = "None"
             /\ InList(n, available_models)
                => /\ ~InList(n, available_models')
                   /\ tainted_models'.exists
                   /\ InList(n, tainted_models'.items)]_vars

\* taint_model(n) has just removed n from available_models.
JustTainted(n) ==
    /\ last.op = "taint_model"
    /\ last.arg = <<n>>
    /\ ~InList(n, available_models)
    /\ last.ret = "AttributeError" \/ InList(n, tainted_models.items)

\* C6: once taint_model has removed a name from available_models, a
\* download_model of a different artifact does not list it again.
C6_TaintSurvivesOtherDownload ==
    [][\A n \in Names :
          JustTainted(n) /\ last'.op = "download_model" /\ last'.arg # <<n>>
          => ~InList(n, available_models')]_vars

\* C7: check_model_available(name) is true exactly when name is in the
\* catalog and every file of the artifact exists now, whatever the
\* available, tainted and loaded sets hold; it never raises.
C7_CheckIsDiskTruth ==
    last.op = "check_model_available" =>
        LET n == last.arg[1] IN
        /\ last.ret \in {"True", "False"}
        /\ last.ret = "True" <=> (n \in DOMAIN models /\ AllFilesExist(models, fs, n))

\* C7 witness: the check answered True for an artifact that is not listed
\* in available_models, with another artifact's file missing.
C7_Witness ==
    /\ last.op = "check_model_available"
    /\ last.arg = <<"a">>
    /\ last.ret = "True"
    /\ ~InList("a", available_models)
    /\ fs["m/b1"] = 0

\* C8: validate_model(name) is true iff every file exists and every declared
\* digest matches; with skip_checksum only existence is checked.
C8_ChecksumGating ==
    LET n == last.arg[1] IN
    /\ last.op = "validate_model" /\ n \in DOMAIN models
       => /\ last.ret \in {"True", "False"}
          /\ last.ret = "True"
             <=> (AllFilesExist(models, fs, n) /\ AllDigestsMatch(models, fs, n))
    /\ last.op = "validate_model(skip_checksum)" /\ n \in DOMAIN models
       => /\ last.ret \in {"True", "False"}
          /\ last.ret = "True" <=> AllFilesExist(models, fs, n)

\* C8 witness: validation failed on a single mismatching digest, every file
\* being present.
C8_Witness ==
    /\ last.op = "validate_model"
    /\ last.arg = <<"a">>
    /\ last.ret = "False"
    /\ AllFilesExist(models, fs, "a")
    /\ ~AllDigestsMatch(models, fs, "a")

\* C9: download_model(name) returns True only if, when it returns, every
\* file of the artifact exists and validates, and False only if not.
C9_TrueIffAvailableOnReturn ==
    last.op = "download_model" /\ last.ret \in {"True", "False"} =>
        LET n == last.arg[1] IN
        last.ret = "True"
        <=> /\ n \in DOMAIN models
            /\ AllFilesExist(models, fs, n)
            /\ AllDigestsMatch(models, fs, n)

\* C10: when download_model(name) went through the download list and
\* returned True, name is in available_models and
\* check_model_available(name) is true.
C10_AcquiredIsListed ==
    /\ last.op = "download_model"
    /\ last.ret = "True"
    /\ last.log # <<"already available">>
    => /\ InList(last.arg[1], available_models)
       /\ check_model_available(models, fs, last.arg[1])

\* C13: for a name present in the catalog, download_model propagates no
\* transport- or validation-level failure: it returns True or False, and
\* the only error that leaves it is a failed catalog load (the catalogs of
\* this model have no malformed entry).
C13_FailuresReducedToFalse ==
    [][\A n \in Names :
          DownloadReturns(n) /\ n \in DOMAIN models
          => last'.ret \in {"True", "False", CatalogUnavailable}]_vars

\* C14: with download_reference enabled, init installs the remote catalog
\* when the fetch and the parse succeed (the packaged file is not read),
\* the packaged catalog when they fail, and when the packaged file fails
\* too the error leaves init with models and available_models as before.
C14_CatalogLoading ==
    [][last'.op = "init" /\ download_reference
       => \/ /\ last'.log = <<"GET remote_db">>
             /\ last'.ret = "None"
             /\ models' = RemoteCatalog
          \/ /\ last'.log = <<"GET remote_db", "read models.json">>
             /\ last'.ret = "None"
             /\ models' = LocalCatalog
          \/ /\ last'.log = <<"GET remote_db", "read models.json">>
             /\ last'.ret = CatalogUnavailable
             /\ models' = models
             /\ available_models' = available_models]_vars

\* C14 witness: a load failed on both sources and the remote catalog
\* installed earlier, with an artifact listed, is still in place.
C14_Witness ==
    /\ last.op = "init"
    /\ last.ret = CatalogUnavailable
    /\ download_reference
    /\ models = RemoteCatalog
    /\ available_models # <<>>

\* C17: unload_all_models, whatever is loaded, completes without error and
\* leaves the loaded registry empty and models and available_models as
\* they were.
C17_UnloadAllCompletes ==
    [][last'.op = "unload_all_models"
       => /\ last'.ret = "True"
          /\ loaded_models' = <<>>
          /\ models' = models
          /\ available_models' = available_models]_vars

\* C18: unload_model(name) returns True and removes exactly name when it is
\* loaded, returns False and changes nothing when it is not; the other
\* loaded entries, models and available_models are unchanged and
\* is_model_loaded(name) is false afterwards.
C18_UnloadModelFrame ==
    [][\A n \in CallNames :
          last'.op = "unload_model" /\ last'.arg = <<n>>
          => /\ is_model_loaded(loaded_models, n)
                => last'.ret = "True" /\ loaded_models # loaded_models'
             /\ ~is_model_loaded(loaded_models, n)
                => last'.ret = "False" /\ loaded_models' = loaded_models
             /\ loaded_models' = SelectSeq(loaded_models, LAMBDA m : m # n)
             /\ ~is_model_loaded(loaded_models', n)
             /\ models' = models
             /\ available_models' = available_models]_vars

\* C18 witness: unload_model removed one of two loaded models and the other
\* is still loaded.
C18_Witness ==
    /\ last.op = "unload_model"
    /\ last.ret = "True"
    /\ Len(loaded_models) = 1
    /\ ~is_model_loaded(loaded_models, last.arg[1])

\* The score of a reported device: major * 10 + minor.
Score(d) == d.capability[1] * 10 + d.capability[2]

\* The ranking (cuda_arch, recommended_gpu) is the one the claim describes
\* for the devices torch.cuda reports.
RankedAsClaimed(cuda_arch, recommended_list) ==
    LET n == Len(torch_cuda.devices)
        all == cuda_arch.items
        best == recommended_list.items
    IN  /\ ~cuda_arch.is_none /\ ~recommended_list.is_none
        \* all devices, each once, with its name and score
        /\ Len(all) = n
        /\ {all[k].id : k \in 1..n} = 0..(n - 1)
        /\ \A k \in 1..n :
              /\ all[k].name = torch_cuda.devices[all[k].id + 1].name
              /\ all[k].sm = Score(torch_cuda.devices[all[k].id + 1])
        \* by non-increasing score
        /\ \A j, k \in 1..n : j < k => all[j].sm >= all[k].sm
        \* recommended: exactly the devices of maximum score, each once
        /\ Range(best) = {d \in Range(all) : \A e \in Range(all) : d.sm >= e.sm}
        /\ \A j, k \in 1..Len(best) : j # k => best[j] # best[k]

\* C15: for every list of devices, get_cuda_devices returns all devices by
\* non-increasing score (major * 10 + minor) and, second, exactly the
\* devices of maximum score; so do the fields the constructor sets.
C15_DeviceRanking ==
    torch_cuda.available =>
        /\ RankedAsClaimed(cuda_devices, recommended_gpu)
        /\ last.op = "get_cuda_devices"
           => RankedAsClaimed(last.ret.cuda_arch, last.ret.recommended_gpu)

\* C15 witness: devices with scores [75, 86, 86, 61]; the call has returned
\* them as [86, 86, 75, 61] and recommends the two devices of score 86.
C15_Witness ==
    /\ last.op = "get_cuda_devices"
    /\ torch_cuda.available
    /\ [k \in 1..Len(torch_cuda.devices) |-> Score(torch_cuda.devices[k])]
       = <<75, 86, 86, 61>>
    /\ [k \in 1..Len(last.ret.cuda_arch.items) |-> last.ret.cuda_arch.items[k].sm]
       = <<86, 86, 75, 61>>
    /\ {d.id : d \in Range(last.ret.recommended_gpu.items)} = {1, 2}

\* C16: with no compute device (CUDA unavailable, or available with zero
\* devices) get_cuda_devices returns two empty lists.
C16_NoDeviceGivesEmptyLists ==
    (~torch_cuda.available \/ torch_cuda.devices = <<>>) =>
        /\ cuda_devices = List(<<>>) /\ recommended_gpu = List(<<>>)
        /\ last.op = "get_cuda_devices"
           => /\ last.ret.cuda_arch = List(<<>>)
              /\ last.ret.recommended_gpu = List(<<>>)

\* C20: get_filtered_model_names(**predicates) returns exactly the catalog
\* names whose descriptor's value for every given field (None for a field
\* the descriptor lacks) equals the given value, each once; with no
\* predicate, every catalog name; models, available_models and the loaded
\* registry are unchanged.
C20_FilterIsConjunction ==
    [][last'.op = "get_filtered_model_names"
       => LET kwargs == last'.arg
              names == last'.ret
          IN  /\ Range(names)
                 = {n \in DOMAIN models :
                      \A k \in 1..Len(kwargs) : Get(models[n], kwargs[k][1]) = kwargs[k][2]}
              /\ \A i, j \in 1..Len(names) : i # j => names[i] # names[j]
              /\ kwargs = <<>> => Range(names) = DOMAIN models
              /\ models' = models
              /\ available_models' = available_models
              /\ loaded_models' = loaded_models]_vars

\* C20 witness: two predicates, each matched by two artifacts of the
\* catalog, and the call returned the only artifact matching both.
C20_Witness ==
    /\ last.op = "get_filtered_model_names"
    /\ last.arg = << <<"type", Str("ckpt")>>, <<"download_all", Bool(FALSE)>> >>
    /\ models = FullCatalog
    /\ last.ret = <<"g">>
    /\ available_models # <<>>
    /\ loaded_models # <<>>

\* C12: download_all_models attempts every artifact selected by the
\* download_all filter that is not already available, whatever happened to
\* the artifacts before it, and returns True.
C12_BatchAttemptsEveryArtifact ==
    [][last'.op = "download_all_models"
       => /\ last'.ret = "True"
          /\ \A n \in BatchNames :
                \/ InList("Downloading " \o n, last'.log)
                \/ InList(n \o " is already downloaded.", last'.log)]_vars

\* C11: two callers inside download_model for the same name are never both
\* writing the same destination file.
C11_OneTransportPerFile ==
    \A t1, t2 \in Callers :
        (t1 # t2 /\ calls[t1].pc = "writing" /\ calls[t2].pc = "writing"
            /\ calls[t1].model_name = calls[t2].model_name)
        => calls[t1].open # calls[t2].open

\* Caller t is in a call for an artifact whose sole entry is a manual one.
SoleManual(t) ==
    /\ calls[t].pc # "idle"
    /\ Len(FrameDownload(t)) = 1
    /\ Has(FrameDownload(t)[1], "manual")

\* A caller blocked in input("") takes no step but the confirmation, which
\* for a sole manual entry leads to validation.
BlockedUntilConfirmed ==
    \A t \in Callers :
        calls[t].pc = "input" /\ calls'[t] # calls[t]
        => /\ calls'[t].log = Append(calls[t].log, "ENTER")
           /\ SoleManual(t) => calls'[t].pc = "validate"

\* After the confirmation, validation decides: a failed one returns False,
\* a passed one goes on to the reload and True (or the reload's error).
ValidationDecides ==
    \A t \in Callers :
        LET n == calls[t].model_name IN
        /\ SoleManual(t) /\ calls[t].pc = "validate" /\ calls'[t] # calls[t]
           => IF AllFilesExist(models, fs, n) /\ AllDigestsMatch(models, fs, n)
              THEN calls'[t].pc = "reload"
              ELSE /\ calls'[t].pc = "idle"
                   /\ last' = Call("download_model", <<n>>, "False", calls[t].log)
        /\ SoleManual(t) /\ calls[t].pc = "reload" /\ calls'[t] # calls[t]
           => /\ calls'[t].pc = "idle"
              /\ last'.op = "download_model" /\ last'.arg = <<n>>
              /\ last'.ret \in {"True", CatalogUnavailable}

\* The prompt step of a sole manual entry ends blocked in input(""), not
\* in an error.
PromptCompletes ==
    \A t \in Callers :
        SoleManual(t) /\ calls[t].pc = "entry" /\ calls'[t] # calls[t]
        => calls'[t].pc = "input"

\* C19: for a manual entry download_model performs no later step before
\* the confirmation arrives, after it validates the artifact and the
\* validation decides the result, and the prompt step of an artifact whose
\* sole entry is the manual one completes without error.
C19_ManualBlocksThenValidates ==
    [][BlockedUntilConfirmed /\ ValidationDecides /\ PromptCompletes]_vars

\* C21: constructing the aggregate ModelManager completes: no statement of
\* the constructor reads an attribute of self before it is assigned, no
\* error leaves the constructor, and once it has returned the attributes
\* the test scripts use are set.
C21_AssignedBeforeRead ==
    /\ mm.exc = ""
    /\ mm.pc \in 1..Len(Statements)
       => Range(Statements[mm.pc].args) \subseteq DOMAIN mm.attrs
    /\ mm.pc > Len(Statements) => UsedByTests \subseteq DOMAIN mm.attrs

\* C29: after ImageEmbed returns for an image, the image's SHA256 hash is a
\* key of the cache and is the value returned; when the hash is already a
\* key the call computes no embedding, writes no file and leaves the cache
\* as it was; no call changes the file an existing key maps to.
C29_EmbedOncePerHash ==
    [][last'.op = "ImageEmbed"
       => LET image_hash == Sha256(tobytes(last'.arg[1])) IN
          /\ last'.ret \notin {"RuntimeError", "OSError"}
             => last'.ret = image_hash /\ image_hash \in DOMAIN cache'.kv
          /\ image_hash \in DOMAIN cache.kv
             => last'.ret = image_hash /\ last'.log = <<>> /\ cache' = cache
          /\ \A h \in DOMAIN cache.kv :
                h \in DOMAIN cache'.kv /\ cache'.kv[h] = cache.kv[h]]_vars

\* C29 witness: a call on image 2 found the hash that a call on image 1
\* (the same pixel data) had stored, computed nothing, and the entry still
\* names the file with the array of image 1; another hash is cached too.
C29_Witness ==
    /\ last.op = "ImageEmbed"
    /\ last.arg = <<2>>
    /\ last.log = <<>>
    /\ last.ret = Sha256(tobytes(2))
    /\ Cardinality(DOMAIN cache.kv) = 2
    /\ cache.files[cache.kv[last.ret]] = image_embed_array(1)

\* recompute(catalog): the catalog names all of whose files exist now.
Recomputed == {n \in DOMAIN models : AllFilesExist(models, fs, n)}

\* C22: after every init call that completes and after every download_model
\* call that returns True or False, available_models is the set of catalog
\* names all of whose files exist, also after a failed attempt that wrote
\* files.
C22_AvailableIsRecomputed ==
    \/ last.op = "init" /\ last.ret = "None"
    \/ last.op = "download_model" /\ last.ret \in {"True", "False"}
    => Range(available_models) = Recomputed

\* C23: models changes only in an init call or in a download_model call
\* that returns True; taint_model, taint_models, unload_model,
\* validate_model and check_model_available leave it unchanged; a
\* download_model call that returns False leaves models, available_models
\* and the loaded registry unchanged and deletes no file.
C23_CatalogFrame ==
    [][/\ models' # models
          => \/ last'.op = "init"
             \/ last'.op = "download_model" /\ last'.ret = "True"
       /\ last'.op \in {"taint_model", "taint_models", "unload_model", "validate_model",
                        "validate_model(skip_checksum)", "check_model_available"}
          => models' = models
       /\ last'.op = "download_model" /\ last'.ret = "False"
          => /\ models' = models
             /\ available_models' = available_models
             /\ loaded_models' = loaded_models
             /\ \A p \in DOMAIN fs : fs[p] # 0 => fs'[p] # 0]_vars

\* C23 witness: a download_model call wrote a file and returned False,
\* with the remote catalog in place, an artifact listed and a model loaded.
C23_Witness ==
    /\ last.op = "download_model"
    /\ last.ret = "False"
    /\ InList("write m/a2", last.log)
    /\ models = RemoteCatalog
    /\ available_models # <<>>
    /\ loaded_models # <<>>

\* The destination of entry i of artifact n as the specification resolves
\* it: file_path/file_name of the entry when it holds them, else the path
\* of file spec i.
Destination(catalog, n, i) ==
    LET d == catalog[n].config.download[i] IN
    IF Has(d, "file_path") /\ Has(d, "file_name") THEN Join(d.file_path, d.file_name)
    ELSE catalog[n].config.files[i].path

\* The entries of artifact n before its first entry with a strategy tag.
RECURSIVE LeadingPlain(_, _)
LeadingPlain(download, i) ==
    IF i > Len(download) \/ ~IsPlain(download[i]) THEN i - 1
    ELSE LeadingPlain(download, i + 1)

IsPrefix(s, t) == Len(s) <= Len(t) /\ s = SubSeq(t, 1, Len(s))

\* C24: in a download_model call that goes through the download list, a
\* plain entry (no strategy tag) makes a transfer iff its destination does
\* not exist: the requests of the call are, in order, those of the plain
\* entries whose destination was missing (up to the one that fails, if one
\* does); and when every entry is plain, a destination that exists is left
\* as it is.
C24_PlainPreCheck ==
    [][\A n \in DOMAIN models :
          DownloadReturns(n) /\ ~InList(n, available_models)
          => LET download == models[n].config.download
                 plain == 1..LeadingPlain(download, 1)
                 requests == {"GET " \o download[i].file_url : i \in plain}
                 made == SelectSeq(last'.log, LAMBDA e : e \in requests)
                 missing == SelectSeq([i \in plain |-> i],
                                      LAMBDA i : fs[Destination(models, n, i)] = 0)
                 due == [k \in 1..Len(missing) |-> "GET " \o download[missing[k]].file_url]
             IN  /\ IsPrefix(made, due)
                 /\ last'.ret \in {"True", "False"} => made = due
                 /\ \A i \in plain :
                       Len(download) = LeadingPlain(download, 1)
                       /\ fs[Destination(models, n, i)] # 0
                       => fs'[Destination(models, n, i)] = fs[Destination(models, n, i)]]_vars

\* C24 witness: download_model("a") with m/a1 present and m/a2 absent has
\* made exactly one transfer, for m/a2, and m/a1 still holds what it held
\* (a content the transfers of this model never deliver in full).
C24_Witness ==
    /\ last.op = "download_model"
    /\ last.arg = <<"a">>
    /\ last.ret = "False"
    /\ last.log = <<"GET http://h/a2", "write m/a2">>
    /\ fs["m/a1"] = Truncated
    /\ fs["m/a2"] = 1

\* C25: for the artifact "a" of plain downloads, every transfer succeeding
\* with content that matches the catalog digest, re-invoking
\* download_model("a") eventually returns True, from every cache state.
C25_RetryConverges ==
    <>(last.op = "download_model" /\ last.arg = <<"a">> /\ last.ret = "True")

\* The strategy tags, in the order the specification gives them.
TagOrder == << "manual", "file_content", "symlink", "git", "unzip" >>

\* The strategy of an entry: its first tag in that order, the plain
\* download when it has none.
StrategyOf(d) ==
    LET tags == SelectSeq(TagOrder, LAMBDA t : Has(d, t)) IN
    IF tags = <<>> THEN "plain" ELSE Head(tags)

\* C26: the destination each entry uses is resolved from that entry and its
\* file spec alone: no entry fails for want of a file_path/file_name that
\* the file spec supplies, and when the call has gone through the list the
\* literal content of every file_content entry is at that entry's own
\* destination.
C26_DestinationPerEntry ==
    /\ last.op = "download_model"
    /\ last.log # <<"already available">>
    /\ last.arg[1] \in DOMAIN models
    => LET n == last.arg[1]
           download == models[n].config.download
       IN  /\ last.ret # "UnboundLocalError"
           /\ last.ret \in {"True", "False"}
              => \A i \in 1..Len(download) :
                    StrategyOf(download[i]) = "file_content"
                    => fs[Destination(models, n, i)] = download[i].file_content

\* C27: when download_model has run the unzip step of an entry and the
\* archive was downloaded in full, the call ends without an error of the
\* step, the extracted member is under the destination directory, neither
\* the temporary directory nor the archive exists any more, and the archive
\* was read from the path it was downloaded to.
C27_ArchiveStepCompletes ==
    /\ last.op = "download_model"
    /\ last.arg[1] \in DOMAIN models
    => LET download == models[last.arg[1]].config.download IN
       \A i \in 1..Len(download) :
          LET d == download[i]
              downloaded_to == DoubledZipPath(d.file_name)
          IN  /\ StrategyOf(d) = "unzip"
              /\ InList("write " \o downloaded_to, last.log)
              /\ last.ret # "ConnectionError"
              => /\ last.ret \in {"True", "False", CatalogUnavailable}
                 /\ InList("extract " \o downloaded_to, last.log)
                 /\ \/ fs[Join(d.file_path, d.file_name)] # 0
                    \/ fs[NestedPath(d.file_path, d.file_name)] # 0
                 /\ fs[TempPath] = 0
                 /\ fs[ZipPath(d.file_name)] = 0
                 /\ fs[downloaded_to] = 0

\* The step of the named strategy, for entry d.
StepOf(strategy, st, d, file_path, out) ==
    CASE strategy = "manual" -> manual_step(st, out)
      [] strategy = "file_content" -> file_content_step(st, d)
      [] strategy = "symlink" -> symlink_step(st, d, out)
      [] strategy = "git" -> git_step(st, file_path, out)
      [] strategy = "unzip" -> unzip_step(st, out)
      [] OTHER -> plain_step(st, file_path, out)

\* The entries from i on, each run once, in list order, by the one strategy
\* StrategyOf gives it, until one raises.
RECURSIVE OneStrategyEach(_, _, _, _, _)
OneStrategyEach(st, download, files, i, outs) ==
    IF i > Len(download) \/ st.exc # "" THEN st
    ELSE LET d == download[i]
             file_path == IF Has(d, "file_path") THEN Join(d.file_path, d.file_name)
                          ELSE files[i].path
             bound == [st EXCEPT
                         !.download_url  = IF Has(d, "file_url")  THEN d.file_url  ELSE @,
                         !.download_name = IF Has(d, "file_name") THEN d.file_name ELSE @,
                         !.download_path = IF Has(d, "file_path") THEN d.file_path ELSE @]
         IN  OneStrategyEach(StepOf(StrategyOf(d), bound, d, file_path, outs[i]),
                             download, files, i + 1, outs)

\* C28: a download_model call that goes through the download list does what
\* running every entry once, in list order, by its one strategy (the first
\* of manual, file_content, symlink, git, unzip the entry holds, else the
\* plain download) does for some answers of the environment; an error of a
\* step ends the call, and otherwise validation follows, on the files as
\* the last entry left them.
C28_OneStrategyPerEntry ==
    [][\A n \in DOMAIN models :
          DownloadReturns(n) /\ ~InList(n, available_models)
          => LET download == models[n].config.download
                 files == models[n].config.files
             IN  \E outs \in [1..Len(download) -> Outcomes] :
                    LET st == OneStrategyEach(Locals(fs), download, files, 1, outs) IN
                    /\ fs' = st.fs
                    /\ IF st.exc # ""
                       THEN last'.ret = st.exc /\ last'.log = st.log
                       ELSE /\ IsPrefix(st.log, last'.log)
                            /\ last'.ret \in {"True", "False", "IsADirectoryError",
                                              CatalogUnavailable}
                            /\ last'.ret = "False"
                               <=> ~validate_raises_from(fs', files, 1)
                                   /\ ~validate_model(models, fs', n, FALSE)]_vars

\* C28 witness: download_model("y") has gone through both entries of "y",
\* the first (symlink and git) as a symlink, the second (git and unzip) as
\* a clone, and validation has passed.
C28_Witness ==
    /\ last.op = "download_model"
    /\ last.arg = <<"y">>
    /\ last.ret = "True"
    /\ SubSeq(last.log, 1, 3) = <<"symlink m/y1", "mkdir m/y2", "git clone http://h/y2.git">>

====
